---- MODULE Spec2Model ----
(***************************************************************************)
(* Model of BoL_Kiosk_App.py: one run of the Streamlit script, from the    *)
(* uploaded spreadsheet to the Word document offered for download.         *)
(*                                                                         *)
(* Text is a sequence of character codes, so that concatenation, str() of  *)
(* a number and the order used by sorted() are computed, not assumed.      *)
(* Column names are only ever compared for equality and stay TLA+ strings. *)
(***************************************************************************)
EXTENDS Integers, Sequences, FiniteSets, TLC

VARIABLES uploaded_file, logo, pc, stages, df, errors, kiosk_col,
          locker_options, selected_locker, matching_rows, doc, download

vars == <<uploaded_file, logo, pc, stages, df, errors, kiosk_col,
          locker_options, selected_locker, matching_rows, doc, download>>

\* ------------------------------------------------------------------ bounds

\* Most data rows in an uploaded sheet.
MaxRows == 3

\* ------------------------------------------------------------- text values

S_empty == << >>
S_nan == <<110, 97, 110>>                               \* "nan"
S_A1 == <<65, 49>>                                      \* "A1"
S_B == <<66>>                                           \* "B"
S_1 == <<49>>                                           \* "1"
S_7 == <<55>>                                           \* "7"
S_9 == <<57>>                                           \* "9"
S_Z9 == <<90, 57>>                                      \* "Z9"
S_TitleMid == <<32, 32, 40, 75, 105, 111, 115, 107, 32>> \* "  (Kiosk "
S_TitleEnd == <<41>>                                    \* ")"
S_FileMid == <<95, 75, 105, 111, 115, 107, 95>>         \* "_Kiosk_"
S_FileExt == <<46, 100, 111, 99, 120>>                  \* ".docx"

\* A cell of the frame: a text, a number (a non-negative integer here) or NaN.
Text(s) == [t |-> "text", s |-> s, n |-> 0]
Num(n) == [t |-> "num", s |-> << >>, n |-> n]
NaN == [t |-> "nan", s |-> << >>, n |-> 0]

\* ---------------------------------------------------------------- columns

REQUIRED_COLUMNS ==
    << "Property Name", "Store ID (NSA Unique ID)", "Address", "City", "St",
       "Zip", "Size", "Gen", "Indoor/ Outdoor", "Config", "Locker Name",
       "Contact Name", "Contact Phone #", "PO for Invoice" >>

RequiredSet == { REQUIRED_COLUMNS[i] : i \in 1..Len(REQUIRED_COLUMNS) }

KioskSpace == "Kiosk "
KioskPlain == "Kiosk"

AllColumns == RequiredSet \cup {KioskSpace, KioskPlain}

NoColumn == "<unset>"

\* ------------------------------------------------------------ pure helpers

\* str() of a non-negative integer: its decimal digits.
RECURSIVE IntToStr(_)
IntToStr(n) ==
    IF n < 10 THEN <<48 + n>> ELSE IntToStr(n \div 10) \o <<48 + (n % 10)>>

\* pd.isna(val)
isna(val) == val.t = "nan"

\* str(val): the text itself, the digits of a number, "nan" for NaN.
str(val) ==
    CASE val.t = "text" -> val.s
      [] val.t = "num" -> IntToStr(val.n)
      [] OTHER -> S_nan

\* A fmt that forgets the NaN test.
fmt_NoNaNTest(val) == str(val)

\* def fmt(val)
fmt(val) == IF isna(val) THEN S_empty ELSE str(val)

\* Order of Python str comparison: by code point, a proper prefix first.
LexLess(a, b) ==
    \/ /\ Len(a) < Len(b)
       /\ \A j \in 1..Len(a) : a[j] = b[j]
    \/ \E i \in 1..Len(a) :
          /\ i <= Len(b)
          /\ a[i] < b[i]
          /\ \A j \in 1..(i - 1) : a[j] = b[j]

RECURSIVE Insert(_, _)
Insert(x, s) ==
    IF s = << >> THEN <<x>>
    ELSE IF LexLess(Head(s), x) THEN <<Head(s)>> \o Insert(x, Tail(s))
    ELSE <<x>> \o s

\* A sort that leaves the list in order of appearance.
sorted_Unsorted(s) == s

\* sorted(...)
RECURSIVE sorted(_)
sorted(s) == IF s = << >> THEN << >> ELSE Insert(Head(s), sorted(Tail(s)))

InSeq(x, s) == \E i \in 1..Len(s) : s[i] = x

\* Series.unique(): first occurrences, in order of appearance.
RECURSIVE unique(_)
unique(s) ==
    IF s = << >> THEN << >>
    ELSE LET front == unique(SubSeq(s, 1, Len(s) - 1))
             last == s[Len(s)]
         IN IF InSeq(last, front) THEN front ELSE Append(front, last)

\* ----------------------------------------------------------- the uploads

\* Texts that read_excel turns into NaN (pandas' default NA values; an empty
\* cell reaches the parser as the empty text).
NA_VALUES == {S_empty, S_nan}

ColIdx(c) == CHOOSE i \in 1..Len(REQUIRED_COLUMNS) : REQUIRED_COLUMNS[i] = c

\* Cell of a sheet row: variant 0 holds texts, variant 1 numbers and blanks.
RawCell(c, ln, v) ==
    IF c = "Locker Name" THEN ln
    ELSE IF c = KioskSpace THEN (IF v = 0 THEN Text(S_7) ELSE Text(S_empty))
    ELSE IF c = KioskPlain THEN (IF v = 0 THEN Num(8) ELSE Text(S_9))
    ELSE IF v = 0 THEN Text(<<96 + ColIdx(c)>>)
    ELSE IF c = "Property Name" THEN Text(S_empty)
    ELSE Num(10 + ColIdx(c))

RawRow(ln, v) == [c \in AllColumns |-> RawCell(c, ln, v)]

RowTemplates ==
    { RawRow(Text(S_A1), 0), RawRow(Text(S_A1), 1), RawRow(Text(S_B), 0),
      RawRow(Num(1), 1), RawRow(Text(S_1), 0), RawRow(Text(S_empty), 0),
      RawRow(Text(S_nan), 1) }

\* Columns a sheet may lack.
Droppable ==
    { "Property Name", "Zip", "Config", "PO for Invoice", KioskSpace, KioskPlain }

Headers == { AllColumns \ d : d \in SUBSET Droppable }

RowSeqs == UNION { [1..n -> RowTemplates] : n \in 0..MaxRows }

Corrupt == [present |-> TRUE, ok |-> FALSE, columns |-> {}, rows |-> << >>]
NoFile == [present |-> FALSE, ok |-> FALSE, columns |-> {}, rows |-> << >>]

Sheets ==
    { [present |-> TRUE, ok |-> TRUE, columns |-> h, rows |-> r] :
        h \in Headers, r \in RowSeqs }

Uploads == {NoFile, Corrupt} \cup Sheets

\* Names a caller may ask select for, listed or not.
Names == {S_A1, S_B, S_1, S_nan, S_Z9}

\* ------------------------------------------------------------ read_excel

ParseCell(raw) ==
    IF raw.t = "text" /\ raw.s \in NA_VALUES THEN NaN ELSE raw

\* pd.read_excel(xls, sheet_name=sheet_name): the header's columns, each cell
\* parsed.
read_excel(file) ==
    [ columns |-> file.columns,
      rows |-> [ i \in 1..Len(file.rows) |->
                   [c \in file.columns |-> ParseCell(file.rows[i][c])] ] ]

NoDf == [columns |-> {}, rows |-> << >>]

\* ------------------------------------------------------- schema validation

\* A check that reports only the first missing column.
MissingColumns_FirstOnly(columns) ==
    LET all == SelectSeq(REQUIRED_COLUMNS, LAMBDA c : c \notin columns)
    IN IF all = << >> THEN << >> ELSE <<Head(all)>>

\* missing = [c for c in REQUIRED_COLUMNS if c not in df.columns]
MissingColumns(columns) ==
    SelectSeq(REQUIRED_COLUMNS, LAMBDA c : c \notin columns)

\* A resolution that tries "Kiosk" before "Kiosk ".
ResolveKioskCol_PlainFirst(columns) ==
    IF KioskPlain \in columns THEN KioskPlain
    ELSE IF KioskSpace \in columns THEN KioskSpace
    ELSE NoColumn

\* if "Kiosk " in df.columns ... elif "Kiosk" in df.columns ... else
ResolveKioskCol(columns) ==
    IF KioskSpace \in columns THEN KioskSpace
    ELSE IF KioskPlain \in columns THEN KioskPlain
    ELSE NoColumn

\* ------------------------------------------------------- listing, selection

Indices(d) == [i \in 1..Len(d.rows) |-> i]

\* A series that keeps the rows whose Locker Name is missing.
locker_series_NoDropna(d) ==
    [i \in 1..Len(d.rows) |-> str(d.rows[i]["Locker Name"])]

\* df["Locker Name"].dropna().astype(str)
locker_series(d) ==
    LET kept == SelectSeq(Indices(d),
                          LAMBDA i : ~isna(d.rows[i]["Locker Name"]))
    IN [k \in 1..Len(kept) |-> str(d.rows[kept[k]]["Locker Name"])]

\* sorted(locker_series.unique())
LockerOptions(d) == sorted(unique(locker_series(d)))

\* df[df["Locker Name"].astype(str) == selected_locker]: the index labels of
\* the rows kept, in table order.
MatchingRows(d, name) ==
    SelectSeq(Indices(d), LAMBDA i : str(d.rows[i]["Locker Name"]) = name)

\* A pick of the last matching row.
FirstRow_Last(d, matching) == d.rows[matching[Len(matching)]]

\* row = matching_rows.iloc[0]
FirstRow(d, matching) == d.rows[matching[1]]

\* ------------------------------------------------------------- rendering

\* The footer line (its bullet written as a hyphen).
FOOTER_TEXT == "Piedmont Moving Systems - Amazon Locker Operations"
DOCX_MIME ==
    "application/vnd.openxmlformats-officedocument.wordprocessingml.document"

TABLE1_HEADER ==
    << "Property Name", "Store ID (NSA Unique ID)", "Address", "City", "St",
       "Zip" >>
TABLE2_HEADER ==
    << "Size", "Gen", "Indoor/ Outdoor", "Config", "Locker Name",
       "Contact Name", "Contact Phone #", "PO for Invoice" >>

\* f"{fmt(row['Locker Name'])}  (Kiosk {fmt(row[kiosk_col])})"
Title(row, kc) ==
    fmt(row["Locker Name"]) \o S_TitleMid \o fmt(row[kc]) \o S_TitleEnd

\* f"{fmt(row['Locker Name'])}_Kiosk_{fmt(row[kiosk_col])}.docx"
FileName(row, kc) ==
    fmt(row["Locker Name"]) \o S_FileMid \o fmt(row[kc]) \o S_FileExt

\* A value row with City and St exchanged.
Table1Values_Swapped(row) ==
    << fmt(row["Property Name"]), fmt(row["Store ID (NSA Unique ID)"]),
       fmt(row["Address"]), fmt(row["St"]), fmt(row["City"]),
       fmt(row["Zip"]) >>

\* val_cells[0..5].text
Table1Values(row) ==
    << fmt(row["Property Name"]), fmt(row["Store ID (NSA Unique ID)"]),
       fmt(row["Address"]), fmt(row["City"]), fmt(row["St"]),
       fmt(row["Zip"]) >>

\* val2[0..7].text
Table2Values(row) ==
    << fmt(row["Size"]), fmt(row["Gen"]), fmt(row["Indoor/ Outdoor"]),
       fmt(row["Config"]), fmt(row["Locker Name"]), fmt(row["Contact Name"]),
       fmt(row["Contact Phone #"]), fmt(row["PO for Invoice"]) >>

\* What the render finds at LOGO_PATH: no file, a picture that embeds, or a
\* file whose add_picture raises.
LogoStates == {"absent", "ok", "bad"}

\* footer_para.text = ...: written whatever the logo's state.
Footer(lg) == FOOTER_TEXT

\* A header that counts the picture as embedded although add_picture raised.
HeaderLogo_IgnoresFailure(lg) == lg # "absent"

\* if Path(LOGO_PATH).exists(): try: header_run.add_picture(...) except: pass
HeaderLogo(lg) == lg = "ok"

\* The document built from one row.
RenderDoc(row, kc, lg) ==
    [ title |-> Title(row, kc),
      table1_header |-> TABLE1_HEADER,
      table1_values |-> Table1Values(row),
      table2_header |-> TABLE2_HEADER,
      table2_values |-> Table2Values(row),
      header_logo |-> HeaderLogo(lg),
      footer |-> Footer(lg) ]

\* ---------------------------------------------------------------- the run

Error(kind, names) == [kind |-> kind, names |-> names]

Init ==
    /\ uploaded_file \in Uploads
    /\ logo = "unchecked"
    /\ pc = "start"
    /\ stages = << >>
    /\ df = NoDf
    /\ errors = << >>
    /\ kiosk_col = NoColumn
    /\ locker_options = << >>
    /\ selected_locker = << >>
    /\ matching_rows = << >>
    /\ doc = << >>
    /\ download = << >>

\* if uploaded_file is not None: (else the script ends)
NoUpload ==
    /\ pc = "start"
    /\ ~uploaded_file.present
    /\ pc' = "done"
    /\ UNCHANGED <<uploaded_file, logo, stages, df, errors, kiosk_col,
                   locker_options, selected_locker, matching_rows, doc,
                   download>>

\* try: pd.ExcelFile / pd.read_excel; except: st.error, st.stop
ReadExcel ==
    /\ pc = "start"
    /\ uploaded_file.present
    /\ stages' = Append(stages, "ingest")
    /\ IF uploaded_file.ok
       THEN /\ df' = read_excel(uploaded_file)
            /\ pc' = "required"
            /\ UNCHANGED errors
       ELSE /\ errors' = Append(errors, Error("read", << >>))
            /\ pc' = "stopped"
            /\ UNCHANGED df
    /\ UNCHANGED <<uploaded_file, logo, kiosk_col, locker_options,
                   selected_locker, matching_rows, doc, download>>

\* A required-column check that reports and goes on.
CheckRequired_NoStop ==
    /\ pc = "required"
    /\ stages' = Append(stages, "required")
    /\ LET missing == MissingColumns(df.columns)
       IN IF missing # << >>
          THEN errors' = Append(errors, Error("missing_columns", missing))
          ELSE UNCHANGED errors
    /\ pc' = "kiosk"
    /\ UNCHANGED <<uploaded_file, logo, df, kiosk_col, locker_options,
                   selected_locker, matching_rows, doc, download>>

\* missing = [...]; if missing: st.error(...), st.stop()
CheckRequired ==
    /\ pc = "required"
    /\ stages' = Append(stages, "required")
    /\ LET missing == MissingColumns(df.columns)
       IN IF missing # << >>
          THEN /\ errors' = Append(errors, Error("missing_columns", missing))
               /\ pc' = "stopped"
          ELSE /\ pc' = "kiosk"
               /\ UNCHANGED errors
    /\ UNCHANGED <<uploaded_file, logo, df, kiosk_col, locker_options,
                   selected_locker, matching_rows, doc, download>>

\* kiosk_col = "Kiosk " / "Kiosk", else st.error(...), st.stop()
ResolveKiosk ==
    /\ pc = "kiosk"
    /\ stages' = Append(stages, "kiosk")
    /\ LET kc == ResolveKioskCol(df.columns)
       IN IF kc = NoColumn
          THEN /\ errors' = Append(errors, Error("kiosk", << >>))
               /\ pc' = "stopped"
               /\ UNCHANGED kiosk_col
          ELSE /\ kiosk_col' = kc
               /\ pc' = "list"
               /\ UNCHANGED errors
    /\ UNCHANGED <<uploaded_file, logo, df, locker_options, selected_locker,
                   matching_rows, doc, download>>

\* locker_options = sorted(...); if not locker_options: st.error, st.stop
ListLockers ==
    /\ pc = "list"
    /\ stages' = Append(stages, "list")
    /\ locker_options' = LockerOptions(df)
    /\ IF locker_options' = << >>
       THEN /\ errors' = Append(errors, Error("no_locker_names", << >>))
            /\ pc' = "stopped"
       ELSE /\ pc' = "select"
            /\ UNCHANGED errors
    /\ UNCHANGED <<uploaded_file, logo, df, kiosk_col, selected_locker,
                   matching_rows, doc, download>>

Select(name) ==
    /\ stages' = Append(stages, "select")
    /\ selected_locker' = name
    /\ matching_rows' = MatchingRows(df, name)
    /\ pc' = "button"
    /\ UNCHANGED <<uploaded_file, logo, df, errors, kiosk_col, locker_options,
                   doc, download>>

\* selected_locker = st.selectbox(options=locker_options, index=0);
\* matching_rows = df[...]
SelectLocker ==
    /\ pc = "select"
    /\ \E k \in 1..Len(locker_options) : Select(locker_options[k])

\* select(table, name) for any name, listed or not.
SelectAnyName ==
    /\ pc = "select"
    /\ \E name \in Names : Select(name)

\* A render that does not test matching_rows.empty.
Generate_NoEmptyTest ==
    /\ pc = "button"
    /\ stages' = Append(stages, "render")
    /\ \E lg \in LogoStates :
          LET row == IF matching_rows = << >>
                     THEN [c \in df.columns |-> NaN]
                     ELSE FirstRow(df, matching_rows)
              d == RenderDoc(row, kiosk_col, lg)
          IN /\ logo' = lg
             /\ doc' = <<d>>
             /\ download' = << [ file_name |-> FileName(row, kiosk_col),
                                 data |-> d, mime |-> DOCX_MIME ] >>
    /\ pc' = "done"
    /\ UNCHANGED <<uploaded_file, df, errors, kiosk_col, locker_options,
                   selected_locker, matching_rows>>

\* if st.button("Generate Word document"): ... st.download_button(...)
Generate ==
    /\ pc = "button"
    /\ stages' = Append(stages, "render")
    /\ IF matching_rows = << >>
       THEN /\ errors' = Append(errors, Error("no_row", << >>))
            /\ pc' = "stopped"
            /\ UNCHANGED <<doc, download, logo>>
       ELSE \E lg \in LogoStates :
              LET row == FirstRow(df, matching_rows)
                  d == RenderDoc(row, kiosk_col, lg)
              IN /\ logo' = lg
                 /\ doc' = <<d>>
                 /\ download' = << [ file_name |-> FileName(row, kiosk_col),
                                     data |-> d, mime |-> DOCX_MIME ] >>
                 /\ pc' = "done"
                 /\ UNCHANGED errors
    /\ UNCHANGED <<uploaded_file, df, kiosk_col, locker_options,
                   selected_locker, matching_rows>>

\* The button is not pressed: the script ends after the preview.
NoClick ==
    /\ pc = "button"
    /\ pc' = "done"
    /\ UNCHANGED <<uploaded_file, logo, stages, df, errors, kiosk_col,
                   locker_options, selected_locker, matching_rows, doc,
                   download>>

Next ==
    \/ NoUpload
    \/ ReadExcel
    \/ CheckRequired
    \/ ResolveKiosk
    \/ ListLockers
    \/ SelectLocker
    \/ Generate
    \/ NoClick

Spec == Init /\ [][Next]_vars

\* The same run with select called for any name.
NextAnyName ==
    \/ NoUpload
    \/ ReadExcel
    \/ CheckRequired
    \/ ResolveKiosk
    \/ ListLockers
    \/ SelectAnyName
    \/ Generate
    \/ NoClick

SpecAnyName == Init /\ [][NextAnyName]_vars

\* ================================================================ claims

Ran(stage) == InSeq(stage, stages)
LockerName(i) == df.rows[i]["Locker Name"]
Rendered == doc # << >>
\* The row the document was built from: the matching row of least index.
RenderedRow == df.rows[matching_rows[1]]

\* ---- C1 ----------------------------------------------------------------
\* C1: for a table lacking one or more of the 14 required columns, the
\* validation error names exactly the required columns that are absent (all
\* of them, none that is present, none twice), it is the only error, and no
\* document or download is produced for that table.
C1_MissingReportedExactly ==
    LET absent == RequiredSet \ uploaded_file.columns
    IN (uploaded_file.ok /\ absent # {}) =>
         /\ doc = << >>
         /\ download = << >>
         /\ Ran("required") =>
              /\ pc = "stopped"
              /\ Len(errors) = 1
              /\ errors[1].kind = "missing_columns"
              /\ { errors[1].names[j] : j \in 1..Len(errors[1].names) } = absent
              /\ Len(errors[1].names) = Cardinality(absent)

\* Two required columns are absent (Zip and Config) and were reported.
C1_Witness ==
    /\ uploaded_file.ok
    /\ RequiredSet \ uploaded_file.columns = {"Zip", "Config"}
    /\ pc = "stopped"
    /\ Len(errors) = 1
    /\ errors[1].kind = "missing_columns"

\* ---- C2 ----------------------------------------------------------------
\* C2 as stated: with both "Kiosk" and "Kiosk " present, the resolved column
\* is "Kiosk", and title and file name take their kiosk value from it.
C2_PrefersPlainKiosk ==
    (Ran("kiosk") /\ {KioskPlain, KioskSpace} \subseteq df.columns) =>
        /\ kiosk_col = KioskPlain
        /\ Rendered =>
             /\ doc[1].title = fmt(RenderedRow["Locker Name"]) \o S_TitleMid
                                 \o fmt(RenderedRow[KioskPlain]) \o S_TitleEnd
             /\ download[1].file_name =
                   fmt(RenderedRow["Locker Name"]) \o S_FileMid
                     \o fmt(RenderedRow[KioskPlain]) \o S_FileExt

\* C2 amended: with both "Kiosk" and "Kiosk " present, the resolved column
\* is "Kiosk " (the variant with the trailing space), and title and file name
\* take their kiosk value from that column.
C2_PrefersKioskWithSpace ==
    (Ran("kiosk") /\ {KioskPlain, KioskSpace} \subseteq df.columns) =>
        /\ kiosk_col = KioskSpace
        /\ Rendered =>
             /\ doc[1].title = fmt(RenderedRow["Locker Name"]) \o S_TitleMid
                                 \o fmt(RenderedRow[KioskSpace]) \o S_TitleEnd
             /\ download[1].file_name =
                   fmt(RenderedRow["Locker Name"]) \o S_FileMid
                     \o fmt(RenderedRow[KioskSpace]) \o S_FileExt

\* A document rendered from a table with both columns, holding different
\* values in the rendered row.
C2_Witness ==
    /\ Rendered
    /\ {KioskPlain, KioskSpace} \subseteq df.columns
    /\ fmt(RenderedRow[KioskPlain]) # fmt(RenderedRow[KioskSpace])

\* ---- C3 ----------------------------------------------------------------
\* C3: selection returns every row whose Locker Name (as a string) is the
\* selected name, in table order, and the document (title, both tables) and
\* the file name are built from the first of them and from no later row.
C3_FirstRowRendered ==
    LET same == { i \in 1..Len(df.rows) : str(LockerName(i)) = selected_locker }
    IN Ran("select") =>
         /\ { matching_rows[k] : k \in 1..Len(matching_rows) } = same
         /\ \A j, k \in 1..Len(matching_rows) :
               j < k => matching_rows[j] < matching_rows[k]
         /\ Rendered =>
              LET first == CHOOSE i \in same : \A j \in same : i <= j
                  r == df.rows[first]
              IN /\ doc[1].title = Title(r, kiosk_col)
                 /\ doc[1].table1_values = Table1Values(r)
                 /\ doc[1].table2_values = Table2Values(r)
                 /\ download[1].file_name = FileName(r, kiosk_col)
                 /\ download[1].data = doc[1]

\* Two rows share the selected name, differ in their cells, and a document
\* was rendered.
C3_Witness ==
    /\ Rendered
    /\ Len(matching_rows) >= 2
    /\ Table1Values(df.rows[matching_rows[2]]) # doc[1].table1_values
    /\ Table2Values(df.rows[matching_rows[2]]) # doc[1].table2_values

\* ---- C4 ----------------------------------------------------------------
StageOrder == << "ingest", "required", "kiosk", "list", "select", "render" >>

\* C4: the stages run in the order ingestion, required-column check, kiosk
\* check, listing, selection, render; an error stops the run where it
\* occurs (ingestion error before validation, schema error before selection,
\* kiosk error only with all 14 required columns present); a failing run
\* has one error, no document and no download.
C4_FailFastInOrder ==
    /\ Len(stages) <= Len(StageOrder)
    /\ stages = SubSeq(StageOrder, 1, Len(stages))
    /\ (pc = "stopped") = (errors # << >>)
    /\ errors # << >> =>
         /\ Len(errors) = 1
         /\ doc = << >>
         /\ download = << >>
         /\ errors[1].kind = "read" =>
               stages = << "ingest" >> /\ df = NoDf
         /\ errors[1].kind = "missing_columns" =>
               /\ stages = << "ingest", "required" >>
               /\ kiosk_col = NoColumn
               /\ selected_locker = << >> /\ matching_rows = << >>
         /\ errors[1].kind = "kiosk" =>
               /\ stages = << "ingest", "required", "kiosk" >>
               /\ RequiredSet \subseteq df.columns
               /\ kiosk_col = NoColumn
               /\ selected_locker = << >> /\ matching_rows = << >>
         /\ errors[1].kind = "no_locker_names" =>
               stages = << "ingest", "required", "kiosk", "list" >>

\* A run stopped by the kiosk error.
C4_Witness ==
    /\ pc = "stopped"
    /\ errors # << >>
    /\ errors[1].kind = "kiosk"

\* ---- C5 ----------------------------------------------------------------
\* C5: the list of selectable names holds no empty string, only string forms
\* of the Locker Name of rows where it is not missing, no duplicates, and is
\* in lexicographic order.
C5_LockerOptions ==
    Ran("list") =>
        /\ \A k \in 1..Len(locker_options) :
             /\ locker_options[k] # S_empty
             /\ \E i \in 1..Len(df.rows) :
                   /\ ~isna(LockerName(i))
                   /\ str(LockerName(i)) = locker_options[k]
        /\ \A j, k \in 1..Len(locker_options) :
             j < k => /\ locker_options[j] # locker_options[k]
                      /\ LexLess(locker_options[j], locker_options[k])

\* Three rows: one without a Locker Name, and two names that the table
\* holds in descending order.
C5_Witness ==
    /\ Ran("list")
    /\ Len(df.rows) = 3
    /\ Len(locker_options) = 2
    /\ \E i \in 1..3 : isna(LockerName(i))
    /\ \E i, j \in 1..3 :
          /\ i < j
          /\ ~isna(LockerName(i)) /\ ~isna(LockerName(j))
          /\ str(LockerName(i)) = locker_options[2]
          /\ str(LockerName(j)) = locker_options[1]

\* ---- C6 ----------------------------------------------------------------
\* C6: selecting a name that matches no row gives an empty selection and no
\* error; pressing the button on an empty selection gives the "no row"
\* error; no document or download is ever produced from zero records.
C6_EmptySelection ==
    /\ (Ran("select") /\ ~\E i \in 1..Len(df.rows) :
                              str(LockerName(i)) = selected_locker) =>
          /\ matching_rows = << >>
          /\ ~Ran("render") => (errors = << >> /\ pc \in {"button", "done"})
    /\ (Ran("render") /\ matching_rows = << >>) =>
          /\ errors = << Error("no_row", << >>) >>
          /\ pc = "stopped"
    /\ (doc # << >> \/ download # << >>) => matching_rows # << >>

\* The button was pressed on a selection of no rows.
C6_Witness ==
    /\ Ran("render")
    /\ selected_locker = S_Z9
    /\ matching_rows = << >>
    /\ errors # << >>

\* ---- C7 ----------------------------------------------------------------
C7_PropertyColumns ==
    << "Property Name", "Store ID (NSA Unique ID)", "Address", "City", "St",
       "Zip" >>
C7_LockerColumns ==
    << "Size", "Gen", "Indoor/ Outdoor", "Config", "Locker Name",
       "Contact Name", "Contact Phone #", "PO for Invoice" >>
Normalized(val) == IF val.t = "nan" THEN << >> ELSE str(val)

\* C7: the title is "<Locker Name>  (Kiosk <kiosk value>)", the file name is
\* "<Locker Name>_Kiosk_<kiosk value>.docx", both from the rendered record
\* and the resolved kiosk column, and the value rows of the two tables hold
\* the normalized values of the record's columns in the stated order.
C7_Layout ==
    Rendered =>
        LET r == RenderedRow
            name == Normalized(r["Locker Name"])
            kiosk == Normalized(r[kiosk_col])
        IN /\ doc[1].title =
                name \o <<32, 32, 40, 75, 105, 111, 115, 107, 32>> \o kiosk
                     \o <<41>>
           /\ download[1].file_name =
                name \o <<95, 75, 105, 111, 115, 107, 95>> \o kiosk
                     \o <<46, 100, 111, 99, 120>>
           /\ Len(doc[1].table1_values) = 6
           /\ \A k \in 1..6 :
                 doc[1].table1_values[k] = Normalized(r[C7_PropertyColumns[k]])
           /\ Len(doc[1].table2_values) = 8
           /\ \A k \in 1..8 :
                 doc[1].table2_values[k] = Normalized(r[C7_LockerColumns[k]])

\* Scenario A: one row, Locker Name "A1", kiosk "7": title "A1  (Kiosk 7)",
\* file name "A1_Kiosk_7.docx".
C7_Witness ==
    /\ Rendered
    /\ Len(df.rows) = 1
    /\ doc[1].title = <<65, 49, 32, 32, 40, 75, 105, 111, 115, 107, 32, 55, 41>>
    /\ download[1].file_name =
          <<65, 49, 95, 75, 105, 111, 115, 107, 95, 55, 46, 100, 111, 99, 120>>
    /\ doc[1].table1_values[4] # doc[1].table1_values[5]

\* ---- C8 ----------------------------------------------------------------
C8_Cells ==
    << "Property Name", "Store ID (NSA Unique ID)", "Address", "City", "St",
       "Zip", "Size", "Gen", "Indoor/ Outdoor", "Config", "Locker Name",
       "Contact Name", "Contact Phone #", "PO for Invoice" >>

\* C8: a missing cell of the rendered record is written as the empty string
\* (never "nan"), any other cell as its plain string form: in every value
\* cell of both tables, and in the kiosk part of the title and file name.
C8_BlankIsEmpty ==
    Rendered =>
        LET r == RenderedRow
            cells == doc[1].table1_values \o doc[1].table2_values
        IN /\ \A k \in 1..Len(C8_Cells) :
                 IF r[C8_Cells[k]] = NaN
                 THEN cells[k] = << >> /\ cells[k] # S_nan
                 ELSE cells[k] = str(r[C8_Cells[k]])
           /\ r[kiosk_col] = NaN =>
                 /\ doc[1].title =
                       str(r["Locker Name"]) \o S_TitleMid \o S_TitleEnd
                 /\ download[1].file_name =
                       str(r["Locker Name"]) \o S_FileMid \o S_FileExt

\* Scenario D: the rendered row has a blank Property Name and a blank kiosk
\* cell, and a number elsewhere.
C8_Witness ==
    /\ Rendered
    /\ RenderedRow["Property Name"] = NaN
    /\ RenderedRow[kiosk_col] = NaN
    /\ RenderedRow["Zip"].t = "num"
    /\ doc[1].table1_values[1] = << >>

\* ---- C9 ----------------------------------------------------------------
\* C9 as stated: the header logo and the footer line are both applied when
\* the logo is available, and neither when it is absent or fails to load;
\* rendering completes without an error either way.
C9_FurnitureFollowsLogo ==
    (Ran("render") /\ matching_rows # << >>) =>
        /\ Rendered
        /\ errors = << >>
        /\ doc[1].header_logo = (logo = "ok")
        /\ (doc[1].footer = FOOTER_TEXT) = (logo = "ok")

\* C9 amended: the header logo is applied exactly when the logo asset exists
\* and embeds; the footer branding line is applied to every document,
\* whatever the logo's state; rendering completes without an error either way.
C9_LogoOptionalFooterAlways ==
    (Ran("render") /\ matching_rows # << >>) =>
        /\ Rendered
        /\ errors = << >>
        /\ pc = "done"
        /\ logo \in LogoStates
        /\ doc[1].header_logo = (logo = "ok")
        /\ doc[1].footer = FOOTER_TEXT

\* A document rendered although embedding the logo failed.
C9_Witness ==
    /\ Rendered
    /\ logo = "bad"
    /\ ~doc[1].header_logo

\* ---- C10 ---------------------------------------------------------------
\* C10: every listed name selects at least one row, each selected row has a
\* Locker Name that is not missing and whose string form is the name; with
\* the name taken from the list, the "no row" error never occurs.
C10_ListedNameSelectsRows ==
    /\ Ran("list") =>
          \A k \in 1..Len(locker_options) :
             LET rows == MatchingRows(df, locker_options[k])
             IN /\ rows # << >>
                /\ \A j \in 1..Len(rows) :
                      /\ ~isna(LockerName(rows[j]))
                      /\ str(LockerName(rows[j])) = locker_options[k]
    /\ Ran("select") =>
          /\ matching_rows # << >>
          /\ \A j \in 1..Len(matching_rows) :
                ~isna(LockerName(matching_rows[j]))
    /\ \A e \in 1..Len(errors) : errors[e].kind # "no_row"

\* The button was pressed on a table that also holds a row without a
\* Locker Name.
C10_Witness ==
    /\ Ran("render")
    /\ \E i \in 1..Len(df.rows) : isna(LockerName(i))
    /\ Rendered

====
